---- MODULE Spec2Model ----
(***************************************************************************)
(* Model of the Kong admin-API reconciliation client (kong/__init__.py,    *)
(* kong/plugin.py, kong/route.py).                                         *)
(*                                                                         *)
(* The gateway is the remote state: the plugins collection, the routes     *)
(* collection, and fixed tables of Services and Consumers.  One client     *)
(* runs one task (a Plugin task or a Route task, its arguments fixed for   *)
(* the run as the module-level arguments of main.py are) and calls the     *)
(* library operations one after another.  Every operation is one action;   *)
(* the HTTP requests it issues, in order, are recorded in last.reqs.       *)
(***************************************************************************)
EXTENDS Integers, Sequences, FiniteSets, TLC

VARIABLES
    plugins,    \* gateway: sequence of Plugin records, in listing order
    routes,     \* gateway: sequence of Route records, in listing order
    nextId,     \* gateway: number of ids handed out by POST so far, plus one
    task,       \* the arguments the client was configured with
    headers,    \* the client's header map (self.headers)
    last,       \* the last library call: arguments, requests, outcome
    runs,       \* plugin_apply calls in flight, each between its query and its write
    walk        \* a cursor walk in flight: the locals of the loop of plugin_query

vars == <<plugins, routes, nextId, task, headers, last, runs, walk>>

---------------------------------------------------------------------------
(* Bounds of the model *)

MaxCreates == 2     \* POSTs the gateway accepts in one run
PageSize == 2       \* entries per page of a gateway list response
MaxWalkData == 2    \* entries a gateway with unconstrained list responses hands out

---------------------------------------------------------------------------
(* Python values *)

None == "<none>"            \* None / null / False for a name or an id
NoList == <<None>>          \* None for a list-valued field
NoCursor == <<>>            \* a falsy 'next'

NoErr == [class |-> "none", what |-> "none"]
Err(c, w) == [class |-> c, what |-> w]

Min(a, b) == IF a < b THEN a ELSE b

\* Python truthiness of a name or an id: 'if service_name:', 'bool(x)'
Truthy(x) == x # None

---------------------------------------------------------------------------
(* Identifiers.  uuid.UUID(s) accepts exactly the well-formed ids. *)

GoodIds == {"u-s1", "u-s2", "u-r1", "u-r2", "u-c1", "u-n1", "u-n2", "u-n3", "u-n4"}
BadIds == {"bad-s", "bad-r", "bad-c"}

UUIDOk(s) == s \in GoodIds

\* ids the gateway hands out on POST
FreshIds == <<"u-n1", "u-n2", "u-n3", "u-n4">>

---------------------------------------------------------------------------
(* Transport Adapter: expected status per verb *)

\* r.raise_for_status() raises requests.HTTPError on 4xx and 5xx
GetRaises(status) == status >= 400 /\ status < 600

PostOk(status) == status = 201

PatchOk(status) == status = 200

DeleteOk(status) == status = 204

\* _url: drop None entries, join the rest in order
Url(uri) == SelectSeq(uri, LAMBDA x : x # None)

Req(verb, uri, status) == [verb |-> verb, uri |-> Url(uri), status |-> status]

IsWrite(r) == r.verb \in {"POST", "PATCH", "DELETE"}

Writes(reqs) == SelectSeq(reqs, IsWrite)

---------------------------------------------------------------------------
(* The gateway *)

ServiceTable == [s1 |-> "u-s1", s2 |-> "u-s2", sBad |-> "bad-s"]
ConsumerTable == [c1 |-> "u-c1", cBad |-> "bad-c"]

\* the Route of the collection addressed by name or id, None when there is none
RouteLookup(rts, x) ==
    LET hit == {i \in 1..Len(rts) : rts[i].id = x \/ rts[i].name = x}
    IN IF hit = {} THEN None ELSE rts[CHOOSE i \in hit : \A j \in hit : i <= j].id

\* id of the entity a GET <kind>/<ident> addresses, None when it does not exist
EntityId(kind, ident, rts) ==
    IF kind = "services"
    THEN IF ident \in DOMAIN ServiceTable THEN ServiceTable[ident] ELSE None
    ELSE IF kind = "consumers"
    THEN IF ident \in DOMAIN ConsumerTable THEN ConsumerTable[ident] ELSE None
    ELSE RouteLookup(rts, ident)

\* the body of a GET on a collection: a dict that is no entity
Collection == "<collection>"

\* response to GET <kind>/<ident>
GwEntity(kind, ident, rts, fault) ==
    LET id == EntityId(kind, ident, rts)
    IN IF fault = "resolver" THEN [status |-> 500, id |-> None]
       \* _url drops a None segment: the GET addresses the collection
       ELSE IF ident = None THEN [status |-> 200, id |-> Collection]
       ELSE IF id = None THEN [status |-> 404, id |-> None]
       ELSE [status |-> 200, id |-> id]

\* a list uri is a scope, optionally followed by "?offset", n
HasOffset(uri) == Len(uri) >= 2 /\ uri[Len(uri) - 1] = "?offset"
ScopeOf(uri) == IF HasOffset(uri) THEN SubSeq(uri, 1, Len(uri) - 2) ELSE uri
OffsetOf(uri, n) ==
    IF HasOffset(uri) THEN CHOOSE k \in 0..n : ToString(k) = uri[Len(uri)] ELSE 0

\* the Plugins a list scope covers
ScopedPlugins(scope, pls, rts) ==
    IF Len(scope) = 3
    THEN LET id == EntityId(scope[1], scope[2], rts)
         IN SelectSeq(pls, LAMBDA p :
                CASE scope[1] = "services" -> p.service = id
                  [] scope[1] = "routes" -> p.route = id
                  [] OTHER -> p.consumer = id)
    ELSE pls

\* one page of a list: 'data' and the 'next' cursor (a path with a leading slash)
PageOf(all, scope, off) ==
    [data |-> SubSeq(all, off + 1, Min(off + PageSize, Len(all))),
     next |-> IF off + PageSize < Len(all)
              THEN <<"/">> \o scope \o <<"?offset", ToString(off + PageSize)>>
              ELSE NoCursor]

\* response to GET on a plugins list uri
GwPluginList(uri, pls, rts) ==
    LET all == ScopedPlugins(ScopeOf(uri), pls, rts)
    IN PageOf(all, ScopeOf(uri), OffsetOf(uri, Len(all)))

ConfigKeys == {"a", "b"}

\* the config a form-encoded payload carries under its 'config.<k>' keys
PayloadConfig(data) ==
    [k \in {c \in ConfigKeys : ("config." \o c) \in DOMAIN data} |-> data["config." \o k]]

PayloadBinding(data, key, old) == IF key \in DOMAIN data THEN data[key] ELSE old

\* POST plugins: a new Plugin with a fresh id
GwPostPlugin(pls, data, id) ==
    Append(pls, [id |-> id,
                 name |-> data["name"],
                 config |-> PayloadConfig(data),
                 service |-> PayloadBinding(data, "service.id", None),
                 route |-> PayloadBinding(data, "route.id", None),
                 consumer |-> PayloadBinding(data, "consumer.id", None)])

\* PATCH plugins/<id>: the fields of the payload replace the Plugin's
GwPatchPlugin(pls, id, data) ==
    [i \in 1..Len(pls) |->
        IF pls[i].id # id THEN pls[i]
        ELSE [id |-> id,
              name |-> data["name"],
              config |-> PayloadConfig(data) @@ pls[i].config,
              service |-> PayloadBinding(data, "service.id", pls[i].service),
              route |-> PayloadBinding(data, "route.id", pls[i].route),
              consumer |-> PayloadBinding(data, "consumer.id", pls[i].consumer)]]

\* DELETE plugins/<id>
GwDeletePlugin(pls, id) == SelectSeq(pls, LAMBDA p : p.id # id)

---------------------------------------------------------------------------
(* Resource Resolvers.  Each returns the resource (here: its id), None, or  *)
(* raises; 'req' is the GET it issued.                                      *)

\* a resolver that returns None on 404 and lets every other failure propagate
NoneOnNotFound(resp, uri) ==
    [raised |-> GetRaises(resp.status) /\ resp.status # 404,
     val |-> IF GetRaises(resp.status) THEN None ELSE resp.id,
     req |-> Req("GET", uri, resp.status)]

\* a resolver that returns None on every requests.HTTPError
NoneOnHTTPError(resp, uri) ==
    [raised |-> FALSE,
     val |-> IF GetRaises(resp.status) THEN None ELSE resp.id,
     req |-> Req("GET", uri, resp.status)]

\* KongService.service_get
ServiceGet(ident, rts, fault) ==
    NoneOnNotFound(GwEntity("services", ident, rts, fault), <<"services", ident>>)

\* KongConsumer.consumer_get
ConsumerGet(ident, rts, fault) ==
    NoneOnNotFound(GwEntity("consumers", ident, rts, fault), <<"consumers", ident>>)

\* KongRoute.route_get
RouteGet(ident, rts, fault) ==
    NoneOnHTTPError(GwEntity("routes", ident, rts, fault), <<"routes", ident>>)

ResourceGet(kind, ident, rts, fault) ==
    CASE kind = "services" -> ServiceGet(ident, rts, fault)
      [] kind = "consumers" -> ConsumerGet(ident, rts, fault)
      [] OTHER -> RouteGet(ident, rts, fault)

---------------------------------------------------------------------------
(* KongPlugin.plugin_query *)

\* 'next'.strip('/'): drop the leading and trailing slashes
RECURSIVE Strip(_)
Strip(s) ==
    IF s = <<>> THEN s
    ELSE IF Head(s) = "/" THEN Strip(Tail(s))
    ELSE IF s[Len(s)] = "/" THEN Strip(SubSeq(s, 1, Len(s) - 1))
    ELSE s

\* mutant: 'next' is not followed, the first page is all there is
WalkFirstPage(res, data, reqs, pls, rts) == [data |-> data, reqs |-> reqs]

\* mutant: the 'data' of a followed page replaces what was gathered before it
RECURSIVE WalkOverwrite(_, _, _, _, _)
WalkOverwrite(res, data, reqs, pls, rts) ==
    IF res.next = NoCursor THEN [data |-> data, reqs |-> reqs]
    ELSE LET r == GwPluginList(Strip(res.next), pls, rts)
         IN WalkOverwrite(r, r.data, Append(reqs, Req("GET", Strip(res.next), 200)), pls, rts)

\* the cursor walk: follow 'next' and append 'data' until 'next' is falsy
RECURSIVE Walk(_, _, _, _, _)
Walk(res, data, reqs, pls, rts) ==
    IF res.next = NoCursor THEN [data |-> data, reqs |-> reqs]
    ELSE LET r == GwPluginList(Strip(res.next), pls, rts)
         IN Walk(r, data \o r.data, Append(reqs, Req("GET", Strip(res.next), 200)), pls, rts)

\* plugins = res = self._get(uri), then the walk
WalkFrom(first, reqs, pls, rts) == Walk(first, first.data, reqs, pls, rts)

\* the rest of an 'if <name>:' block of plugin_query, g being the resolver's
\* result: read the id, check it is a UUID, check the resource is not None
QueryResolved(st, kind, g) ==
    IF g.raised THEN [st EXCEPT !.err = Err("HTTPError", "status")]
    \* <name>.get('id') on None
    ELSE IF g.val = None THEN [st EXCEPT !.err = Err("AttributeError", "none_get")]
    \* uuid.UUID(<id>)
    ELSE IF ~UUIDOk(g.val) THEN [st EXCEPT !.err = Err("ValueError", "bad_uuid")]
    ELSE IF g.val = None THEN [st EXCEPT !.err = Err("ValueError", "not_found")]
    ELSE [st EXCEPT !.ids[kind] = g.val]

\* the start of the block: point the uri at the sub-collection
QueryScoped(st, kind, ident, g) ==
    QueryResolved([st EXCEPT !.uri = <<kind, ident, "plugins">>,
                             !.reqs = Append(@, g.req)], kind, g)

\* one 'if <name>:' block of plugin_query
QueryResolve(st, kind, ident, rts, fault) ==
    IF st.err # NoErr \/ ~Truthy(ident) THEN st
    ELSE QueryScoped(st, kind, ident, ResourceGet(kind, ident, rts, fault))

\* mutant: the bindings are not compared at all
MatchesNameOnly(p, name, ids) == p.name = name

\* mutant: the presence of the service binding is not compared
MatchesNoServicePresence(p, name, ids) ==
    /\ p.name = name
    /\ Truthy(p.consumer) = Truthy(ids["consumers"])
    /\ (Truthy(p.consumer) => p.consumer = ids["consumers"])
    /\ (Truthy(p.service) => p.service = ids["services"])
    /\ Truthy(p.route) = Truthy(ids["routes"])
    /\ (Truthy(p.route) => p.route = ids["routes"])

\* the filter of plugin_query over the candidates
Matches(p, name, ids) ==
    /\ p.name = name
    /\ Truthy(p.consumer) = Truthy(ids["consumers"])
    /\ (Truthy(p.consumer) => p.consumer = ids["consumers"])
    /\ Truthy(p.service) = Truthy(ids["services"])
    /\ (Truthy(p.service) => p.service = ids["services"])
    /\ Truthy(p.route) = Truthy(ids["routes"])
    /\ (Truthy(p.route) => p.route = ids["routes"])

\* the loop over plugins['data']
QueryFilter(all, name, ids) ==
    [err |-> NoErr,
     reqs |-> all.reqs,
     result |-> SelectSeq(all.data, LAMBDA p : Matches(p, name, ids)),
     ids |-> ids]

QueryFailed(err, reqs, ids) == [err |-> err, reqs |-> reqs, result |-> <<>>, ids |-> ids]

\* the first list GET, the walk and the filter
QueryList(st, name, status, pls, rts) ==
    IF st.err # NoErr THEN QueryFailed(st.err, st.reqs, st.ids)
    ELSE IF GetRaises(status)
    THEN QueryFailed(Err("HTTPError", "status"), Append(st.reqs, Req("GET", st.uri, status)), st.ids)
    ELSE QueryFilter(WalkFrom(GwPluginList(st.uri, pls, rts),
                              Append(st.reqs, Req("GET", st.uri, status)), pls, rts),
                     name, st.ids)

\* the locals of plugin_query before the first block
QueryStart(name) ==
    [err |-> IF name = None THEN Err("ValueError", "need_name") ELSE NoErr,
     reqs |-> <<>>,
     uri |-> <<"plugins">>,
     ids |-> [services |-> None, routes |-> None, consumers |-> None]]

PluginQuery(name, service_name, route_name, consumer_name, pls, rts, fault) ==
    QueryList(
        QueryResolve(
            QueryResolve(
                QueryResolve(QueryStart(name), "services", service_name, rts, fault),
                "routes", route_name, rts, fault),
            "consumers", consumer_name, rts, fault),
        name, IF fault = "list" THEN 500 ELSE 200, pls, rts)

---------------------------------------------------------------------------
(* KongPlugin.plugin_apply and plugin_delete *)

\* config arguments: not given, a dict, or something that is not a dict
NoConfig == [kind |-> "none", d |-> <<>>]
Dict(d) == [kind |-> "dict", d |-> d]
NotADict == [kind |-> "str", d |-> <<>>]

\* mutant: the keys are not prefixed
PrepareConfigBare(config) == config

\* _prepare_config: every key prefixed with 'config.'
PrepareConfig(config) ==
    [pk \in {"config." \o k : k \in DOMAIN config} |->
        config[CHOOSE k \in DOMAIN config : "config." \o k = pk]]

\* data.update(d)
Update(data, d) == d @@ data

\* mutant: the resolved id is not put into the payload
ApplyResolvedDropsId(st, key, g) ==
    IF g.raised
    THEN [st EXCEPT !.reqs = Append(@, g.req), !.err = Err("HTTPError", "status")]
    ELSE IF g.val = None
    THEN [st EXCEPT !.reqs = Append(@, g.req), !.err = Err("ValueError", "not_found")]
    ELSE [st EXCEPT !.reqs = Append(@, g.req)]

\* the rest of an 'if <name>:' block of plugin_apply, g being the resolver's
\* result: None is 'not found', else the id goes into the payload
ApplyResolved(st, key, g) ==
    IF g.raised
    THEN [st EXCEPT !.reqs = Append(@, g.req), !.err = Err("HTTPError", "status")]
    ELSE IF g.val = None
    THEN [st EXCEPT !.reqs = Append(@, g.req), !.err = Err("ValueError", "not_found")]
    ELSE [st EXCEPT !.reqs = Append(@, g.req), !.data = Update(@, key :> g.val)]

\* one 'if <name>:' block of plugin_apply
ApplyResolve(st, kind, key, ident, rts, fault) ==
    IF st.err # NoErr \/ ~Truthy(ident) THEN st
    ELSE ApplyResolved(st, key, ResourceGet(kind, ident, rts, fault))

\* the outcome of a call that raised before any write
Raised(err, reqs, pls, data, matches) ==
    [err |-> err, reqs |-> reqs, ret |-> None, pls |-> pls, data |-> data,
     matches |-> matches, posted |-> FALSE]

\* the outcome of a call that issued the write w
Wrote(ok, reqs, w, ret, pls, data, matches, posted) ==
    [err |-> IF ok THEN NoErr ELSE Err("Exception", "unexpected_status"),
     reqs |-> Append(reqs, w),
     ret |-> IF ok THEN ret ELSE None,
     pls |-> pls, data |-> data, matches |-> matches, posted |-> posted]

\* mutant: no ambiguity check, the first match is updated
ApplyDecidePickFirst(p) ==
    IF p # <<>> THEN "update" ELSE "create"

\* mutant: a match is not looked at, the Plugin is always posted
ApplyDecideAlwaysCreate(p) ==
    IF Len(p) > 1 THEN "fail" ELSE "create"

\* the decision of plugin_apply on the result of the query
ApplyDecide(p) ==
    IF Len(p) > 1 THEN "fail" ELSE IF p # <<>> THEN "update" ELSE "create"

\* self._patch(['plugins', p[0].get('id')], data=data)
ApplyPatch(reqs, data, p, pls, status) ==
    Wrote(PatchOk(status), reqs, Req("PATCH", <<"plugins", p[1].id>>, status), "record",
          IF status = 200 THEN GwPatchPlugin(pls, p[1].id, data) ELSE pls,
          data, p, FALSE)

\* self._post(['plugins'], data=data)
ApplyPost(reqs, data, p, pls, status, newId) ==
    Wrote(PostOk(status), reqs, Req("POST", <<"plugins">>, status), "record",
          IF status = 201 THEN GwPostPlugin(pls, data, newId) ELSE pls,
          data, p, status = 201)

\* plugin_apply from the query on: st holds the payload, q the query's outcome
ApplyAct(st, q, pls, fault, newId) ==
    IF st.err # NoErr THEN Raised(st.err, st.reqs, pls, st.data, <<>>)
    ELSE IF q.err # NoErr THEN Raised(q.err, st.reqs \o q.reqs, pls, st.data, <<>>)
    ELSE IF ApplyDecide(q.result) = "fail"
    THEN Raised(Err("ValueError", "ambiguous"), st.reqs \o q.reqs, pls, st.data, q.result)
    ELSE IF ApplyDecide(q.result) = "update"
    THEN ApplyPatch(st.reqs \o q.reqs, st.data, q.result, pls,
                    IF fault = "write" THEN 500 ELSE 200)
    ELSE ApplyPost(st.reqs \o q.reqs, st.data, q.result, pls,
                   IF fault = "write" THEN 500 ELSE 201, newId)

\* the payload before the bindings: the name and the prefixed config
ApplyStart(name, config) ==
    [err |-> IF config.kind \notin {"none", "dict"}
             THEN Err("ValueError", "config_not_dict") ELSE NoErr,
     reqs |-> <<>>,
     data |-> IF config.kind = "dict"
              THEN Update("name" :> name, PrepareConfig(config.d))
              ELSE "name" :> name]

\* plugin_apply up to the query: the payload with the resolved bindings
ApplyBindings(name, config, service_name, route_name, consumer_name, rts, fault) ==
    ApplyResolve(
        ApplyResolve(
            ApplyResolve(ApplyStart(name, config),
                         "services", "service.id", service_name, rts, fault),
            "routes", "route.id", route_name, rts, fault),
        "consumers", "consumer.id", consumer_name, rts, fault)

PluginApply(name, config, service_name, route_name, consumer_name, pls, rts, fault, newId) ==
    ApplyAct(
        ApplyBindings(name, config, service_name, route_name, consumer_name, rts, fault),
        PluginQuery(name, service_name, route_name, consumer_name, pls, rts, fault),
        pls, fault, newId)

\* mutant: no ambiguity check, the first match is deleted
DeleteDecideFirst(p) ==
    IF p # <<>> THEN "delete" ELSE "noop"

\* mutant: a single match is reported as 'no action taken'
DeleteDecideNever(p) ==
    IF Len(p) > 1 THEN "fail" ELSE "noop"

\* the decision of plugin_delete on the result of the query
DeleteDecide(p) ==
    IF Len(p) > 1 THEN "fail" ELSE IF p # <<>> THEN "delete" ELSE "noop"

\* self._delete(['plugins', p[0].get('id')])
DeleteIssue(reqs, p, pls, status) ==
    Wrote(DeleteOk(status), reqs, Req("DELETE", <<"plugins", p[1].id>>, status), "True",
          IF status = 204 THEN GwDeletePlugin(pls, p[1].id) ELSE pls,
          <<>>, p, FALSE)

\* mutant: the Plugin is deleted before the number of matches is checked
DeleteActEager(q, pls, fault) ==
    IF q.err # NoErr THEN Raised(q.err, q.reqs, pls, <<>>, <<>>)
    ELSE IF q.result = <<>>
    THEN [err |-> NoErr, reqs |-> q.reqs, ret |-> "False", pls |-> pls, data |-> <<>>,
          matches |-> q.result, posted |-> FALSE]
    ELSE IF Len(q.result) > 1
    THEN [DeleteIssue(q.reqs, q.result, pls, IF fault = "write" THEN 500 ELSE 204)
            EXCEPT !.err = Err("ValueError", "ambiguous"), !.ret = None]
    ELSE DeleteIssue(q.reqs, q.result, pls, IF fault = "write" THEN 500 ELSE 204)

\* plugin_delete from the query on
DeleteAct(q, pls, fault) ==
    IF q.err # NoErr THEN Raised(q.err, q.reqs, pls, <<>>, <<>>)
    ELSE IF DeleteDecide(q.result) = "fail"
    THEN Raised(Err("ValueError", "ambiguous"), q.reqs, pls, <<>>, q.result)
    ELSE IF DeleteDecide(q.result) = "delete"
    THEN DeleteIssue(q.reqs, q.result, pls, IF fault = "write" THEN 500 ELSE 204)
    ELSE [err |-> NoErr, reqs |-> q.reqs, ret |-> "False", pls |-> pls, data |-> <<>>,
          matches |-> q.result, posted |-> FALSE]

PluginDelete(name, service_name, route_name, consumer_name, pls, rts, fault) ==
    DeleteAct(PluginQuery(name, service_name, route_name, consumer_name, pls, rts, fault),
              pls, fault)

---------------------------------------------------------------------------
(* KongRoute *)

\* the strings of list-valued Route fields, in Python's string order
Alphabet == <<"/x", "GET", "a", "b", "http">>
Rank(x) == CHOOSE i \in 1..Len(Alphabet) : Alphabet[i] = x

RECURSIVE Insert(_, _)
Insert(x, s) ==
    IF s = <<>> THEN <<x>>
    ELSE IF Rank(x) <= Rank(Head(s)) THEN <<x>> \o s
    ELSE <<Head(s)>> \o Insert(x, Tail(s))

\* sorted(list)
RECURSIVE Sorted(_)
Sorted(s) == IF s = <<>> THEN <<>> ELSE Insert(Head(s), Sorted(Tail(s)))

\* r.get(f) if r.get(f) is not None else []
OrEmpty(l) == IF l = NoList THEN <<>> ELSE l

\* the Routes of a Service, as the gateway lists them
ServiceRoutes(service_name, rts) ==
    SelectSeq(rts, LAMBDA r : r.service = EntityId("services", service_name, rts))

\* route_list: the 'data' of the response to GET services/<name>/routes
RouteList(service_name, rts) ==
    PageOf(ServiceRoutes(service_name, rts), <<"services", service_name, "routes">>, 0).data

\* the comparison of route_query
RouteMatches(r, hosts, paths, methods, protocols) ==
    /\ Sorted(OrEmpty(r.hosts)) = Sorted(hosts)
    /\ Sorted(OrEmpty(r.paths)) = Sorted(paths)
    /\ Sorted(OrEmpty(r.methods)) = Sorted(methods)
    /\ Sorted(OrEmpty(r.protocols)) = Sorted(protocols)

\* route_query after the list: more than one match is an error
RouteQueryResult(reqs, result, rts) ==
    IF Len(result) > 1
    THEN Raised(Err("ValueError", "duplicate_routes"), reqs, rts, <<>>, result)
    ELSE [err |-> NoErr, reqs |-> reqs,
          ret |-> IF result # <<>> THEN result[1].id ELSE None,
          pls |-> rts, data |-> <<>>, matches |-> result, posted |-> FALSE]

\* route_query after service_get, g being its result
RouteQueryList(g, service_name, hosts, paths, methods, protocols, rts, status) ==
    IF g.raised THEN Raised(Err("HTTPError", "status"), <<g.req>>, rts, <<>>, <<>>)
    ELSE IF g.val = None THEN Raised(Err("ValueError", "not_found"), <<g.req>>, rts, <<>>, <<>>)
    ELSE IF GetRaises(status)
    THEN Raised(Err("HTTPError", "status"),
                <<g.req, Req("GET", <<"services", service_name, "routes">>, status)>>,
                rts, <<>>, <<>>)
    ELSE RouteQueryResult(
            <<g.req, Req("GET", <<"services", service_name, "routes">>, status)>>,
            SelectSeq(RouteList(service_name, rts),
                      LAMBDA r : RouteMatches(r, hosts, paths, methods, protocols)),
            rts)

RouteQuery(service_name, hosts, paths, methods, protocols, rts, fault) ==
    RouteQueryList(ServiceGet(service_name, rts, fault), service_name, hosts, paths,
                   methods, protocols, rts,
                   IF fault = "list" THEN 500
                   ELSE IF EntityId("services", service_name, rts) = None THEN 404 ELSE 200)

\* POST routes: a new Route with a fresh id
GwPostRoute(rts, payload, id) ==
    Append(rts, [id |-> id, name |-> payload.name, service |-> payload.service.id,
                 hosts |-> payload.hosts, paths |-> payload.paths,
                 methods |-> payload.methods, protocols |-> payload.protocols])

\* PATCH routes/<id>
GwPatchRoute(rts, id, payload) ==
    [i \in 1..Len(rts) |->
        IF rts[i].id # id THEN rts[i]
        ELSE [id |-> id, name |-> payload.name, service |-> payload.service.id,
              hosts |-> payload.hosts, paths |-> payload.paths,
              methods |-> payload.methods, protocols |-> payload.protocols]]

\* DELETE routes/<id>
GwDeleteRoute(rts, id) == SelectSeq(rts, LAMBDA r : r.id # id)

RouteExists(rts, x) == x # None /\ RouteLookup(rts, x) # None

\* self._patch(['routes', route_id], data=json.dumps(payload), headers=headers)
RoutePatch(req, payload, route_id, rts, status) ==
    Wrote(PatchOk(status), <<req>>, Req("PATCH", <<"routes", route_id>>, status), "record",
          IF status = 200 THEN GwPatchRoute(rts, RouteLookup(rts, route_id), payload) ELSE rts,
          payload, <<>>, FALSE)

\* self._post('routes', data=json.dumps(payload), headers=headers)
RoutePost(req, payload, rts, status, newId) ==
    Wrote(PostOk(status), <<req>>, Req("POST", <<"routes">>, status), "record",
          IF status = 201 THEN GwPostRoute(rts, payload, newId) ELSE rts,
          payload, <<>>, status = 201)

\* the payload of route_apply
RoutePayload(name, hosts, paths, methods, protocols, strip_path, preserve_host, service_id) ==
    [name |-> name, protocols |-> protocols, methods |-> methods, hosts |-> hosts,
     paths |-> paths, strip_path |-> strip_path, preserve_host |-> preserve_host,
     service |-> [id |-> service_id]]

\* route_apply after service_get, g being its result
RouteApplyAct(g, payload, route_id, rts, fault, newId) ==
    IF g.raised THEN Raised(Err("HTTPError", "status"), <<g.req>>, rts, <<>>, <<>>)
    ELSE IF g.val = None THEN Raised(Err("ValueError", "not_found"), <<g.req>>, rts, <<>>, <<>>)
    ELSE IF Truthy(route_id)
    THEN RoutePatch(g.req, payload, route_id, rts,
                    IF fault = "write" THEN 500
                    ELSE IF RouteExists(rts, route_id) THEN 200 ELSE 404)
    ELSE RoutePost(g.req, payload, rts, IF fault = "write" THEN 500 ELSE 201, newId)

\* s = self.service_get(service_name) and the payload with s.get('id')
RouteApplyResolved(g, name, hosts, paths, methods, protocols, strip_path, preserve_host, route_id, rts, fault, newId) ==
    RouteApplyAct(g, RoutePayload(name, hosts, paths, methods, protocols, strip_path,
                                  preserve_host, g.val),
                  route_id, rts, fault, newId)

\* mutant: the Service is resolved before the four lists are looked at
RouteApplyLateCheck(service_name, name, hosts, paths, methods, protocols, strip_path, preserve_host, route_id, rts, fault, newId) ==
    IF service_name = None
    THEN Raised(Err("ValueError", "need_service"), <<>>, rts, <<>>, <<>>)
    ELSE IF protocols = NoList /\ hosts = NoList /\ paths = NoList /\ methods = NoList
    THEN Raised(Err("ValueError", "need_fields"),
                <<ServiceGet(service_name, rts, fault).req>>, rts, <<>>, <<>>)
    ELSE RouteApplyResolved(ServiceGet(service_name, rts, fault), name, hosts, paths,
                            methods, protocols, strip_path, preserve_host, route_id,
                            rts, fault, newId)

RouteApply(service_name, name, hosts, paths, methods, protocols, strip_path, preserve_host, route_id, rts, fault, newId) ==
    IF protocols = NoList /\ hosts = NoList /\ paths = NoList /\ methods = NoList
    THEN Raised(Err("ValueError", "need_fields"), <<>>, rts, <<>>, <<>>)
    ELSE IF service_name = None
    THEN Raised(Err("ValueError", "need_service"), <<>>, rts, <<>>, <<>>)
    ELSE RouteApplyResolved(ServiceGet(service_name, rts, fault), name, hosts, paths,
                            methods, protocols, strip_path, preserve_host, route_id,
                            rts, fault, newId)

\* route_delete after route_get, g being its result
RouteDeleteAct(g, route_id, rts, status) ==
    IF Truthy(g.val)
    THEN \* self._delete(['routes', route_id])
         Wrote(DeleteOk(status), <<g.req>>, Req("DELETE", <<"routes", route_id>>, status),
               "True",
               IF status = 204 THEN GwDeleteRoute(rts, RouteLookup(rts, route_id)) ELSE rts,
               <<>>, <<>>, FALSE)
    ELSE [err |-> NoErr, reqs |-> <<g.req>>, ret |-> "False", pls |-> rts,
          data |-> <<>>, matches |-> <<>>, posted |-> FALSE]

RouteDelete(route_id, rts, fault) ==
    RouteDeleteAct(RouteGet(route_id, rts, fault), route_id, rts,
                   IF fault = "write" THEN 500
                   ELSE IF RouteExists(rts, route_id) THEN 204 ELSE 404)

---------------------------------------------------------------------------
(* Fixtures: what the gateway holds when the client starts *)

Plugin(id, name, config, service, route, consumer) ==
    [id |-> id, name |-> name, config |-> config, service |-> service,
     route |-> route, consumer |-> consumer]

Route(id, name, service, hosts, paths, methods, protocols) ==
    [id |-> id, name |-> name, service |-> service, hosts |-> hosts,
     paths |-> paths, methods |-> methods, protocols |-> protocols]

\* one Plugin per (name, service, route, consumer)
UniquePlugins ==
    << Plugin("p1", "p", [a |-> "1"], "u-s1", None, None),
       Plugin("p2", "q", <<>>, "u-s1", None, None),
       Plugin("p3", "p", <<>>, None, None, None),
       Plugin("p4", "p", <<>>, "u-s1", "u-r1", None),
       Plugin("p5", "p", <<>>, "u-s2", "u-r1", None),
       Plugin("p6", "p", <<>>, None, None, "u-c1"),
       Plugin("p7", "p", [b |-> "1"], "u-s1", None, "u-c1"),
       Plugin("p8", "p", <<>>, None, "u-r2", "u-c1"),
       Plugin("p9", "p", <<>>, "u-s1", "u-r1", "u-c1") >>

\* the same with a second Plugin for some of the tuples
DuplicatePlugins ==
    UniquePlugins \o
    << Plugin("p10", "p", <<>>, "u-s1", None, None),
       Plugin("p11", "p", <<>>, None, None, None),
       Plugin("p12", "p", <<>>, "u-s1", "u-r1", "u-c1"),
       Plugin("p13", "p", <<>>, None, "u-r2", None),
       Plugin("p14", "p", <<>>, None, "u-r2", None) >>

PluginFixtures == {<<>>, UniquePlugins, DuplicatePlugins}

BaseRoutes ==
    << Route("u-r1", "r1", "u-s1", <<"a", "b">>, NoList, NoList, NoList),
       Route("u-r2", "r2", "u-s1", <<"a">>, <<"/x">>, NoList, <<"http">>),
       Route("bad-r", "rBad", "u-s2", <<"b">>, NoList, NoList, NoList) >>

\* a second Route with the sets of r1, listed next to it
DuplicateRoutes ==
    << Route("u-r1", "r1", "u-s1", <<"a", "b">>, NoList, NoList, NoList),
       Route("u-r3", "r3", "u-s1", <<"b", "a">>, <<>>, NoList, NoList),
       Route("u-r2", "r2", "u-s1", <<"a">>, <<"/x">>, NoList, <<"http">>) >>

RouteFixtures == {<<>>, BaseRoutes, DuplicateRoutes}

---------------------------------------------------------------------------
(* Arguments *)

PluginTask(name, service, route, consumer) ==
    [kind |-> "plugin", name |-> name, service |-> service, route |-> route,
     consumer |-> consumer]

\* every combination of present and absent bindings
PresenceTasks ==
    {PluginTask("p", s, r, c) : s \in {None, "s1"}, r \in {None, "r1"}, c \in {None, "c1"}}

\* a second Service and a second Route
OtherResourceTasks ==
    {PluginTask("p", s, "r2", None) : s \in {None, "s1", "s2"}}
    \cup {PluginTask("p", "s2", r, None) : r \in {None, "r1"}}
    \cup {PluginTask("p", None, "r2", "c1")}

\* a name that is not on the gateway, or whose id is malformed
UnresolvedTasks ==
    {PluginTask("p", s, None, None) : s \in {"sBad", "sGone"}}
    \cup {PluginTask("p", s, r, None) : s \in {None, "s1"}, r \in {"rBad", "rGone"}}
    \cup {PluginTask("p", s, None, c) : s \in {None, "s1"}, c \in {"cBad", "cGone"}}
    \cup {PluginTask("p", "sGone", "r1", "c1")}

\* another plugin type, and no plugin type
NameTasks ==
    {PluginTask(n, s, None, None) : n \in {None, "q"}, s \in {None, "s1"}}

PluginTasks == PresenceTasks \cup OtherResourceTasks \cup UnresolvedTasks \cup NameTasks

Configs == {NoConfig, NotADict, Dict([a |-> "2", b |-> "1"])}

HostLists == {NoList, <<>>, <<"a">>, <<"a", "b">>, <<"b", "a">>, <<"a", "a">>}
PathLists == {NoList, <<"/x">>}
\* methods and protocols
OtherLists == {<<NoList, NoList>>, <<NoList, <<"http">>>>, <<(<<"GET">>), NoList>>}

RouteTask(service, hosts, paths, methods, protocols, route_id) ==
    [kind |-> "route", service |-> service, name |-> None, hosts |-> hosts,
     paths |-> paths, methods |-> methods, protocols |-> protocols,
     route_id |-> route_id]

\* a Route of Service s1 with every combination of the four lists
ListTasks ==
    {RouteTask("s1", h, p, o[1], o[2], None) : h \in HostLists, p \in PathLists, o \in OtherLists}

\* an existing Route addressed by id
RouteIdTasks ==
    {RouteTask("s1", h, NoList, NoList, NoList, id) : h \in {NoList, <<"a">>}, id \in {"u-r1", "u-gone"}}

\* no Service, a Service that is not there, a Service with a malformed id
ServiceTasks ==
    {RouteTask(s, h, NoList, NoList, NoList, None) : s \in {None, "sBad", "sGone"}, h \in {NoList, <<"a">>}}

RouteTasks == ListTasks \cup RouteIdTasks \cup ServiceTasks

Faults == {"none", "resolver", "list", "write"}
ReadFaults == {"none", "resolver", "list"}

---------------------------------------------------------------------------
(* The client *)

\* the reconciler runs that may overlap
Runs == {1, 2}

\* a run that has not called plugin_apply yet
NotStarted == [pc |-> "start", st |-> <<>>, q |-> <<>>]

\* no cursor walk has begun
NoWalk == [pc |-> "idle", next |-> NoCursor, data |-> <<>>]

\* Kong.__init__: the header map, with the admin token when credentials are given
KongInit(auth_user, auth_pass) ==
    IF auth_user # None /\ auth_pass # None THEN {"Kong-Admin-Token"} ELSE {}

Call(op, config, fault, r, sent) ==
    [op |-> op, config |-> config, fault |-> fault, err |-> r.err, reqs |-> r.reqs,
     ret |-> r.ret, data |-> r.data, matches |-> r.matches, sent |-> sent]

NoCall ==
    [op |-> "none", config |-> NoConfig, fault |-> "none", err |-> NoErr, reqs |-> <<>>,
     ret |-> None, data |-> <<>>, matches |-> <<>>, sent |-> {}]

Init ==
    /\ task \in PluginTasks \cup RouteTasks
    /\ plugins \in IF task.kind = "plugin" THEN PluginFixtures ELSE {<<>>}
    /\ routes \in IF task.kind = "route" THEN RouteFixtures ELSE {BaseRoutes}
    /\ nextId = 1
    /\ headers = KongInit("kong_admin", "kong123")
    /\ last = NoCall
    /\ runs = [i \in Runs |-> NotStarted]
    /\ walk = NoWalk

PluginQueryCall ==
    /\ task.kind = "plugin"
    /\ \E fault \in ReadFaults :
        \E q \in {PluginQuery(task.name, task.service, task.route, task.consumer,
                               plugins, routes, fault)} :
            LET r == [err |-> q.err, reqs |-> q.reqs,
                      ret |-> IF q.err = NoErr THEN "list" ELSE None,
                      data |-> <<>>, matches |-> q.result]
            IN last' = Call("plugin_query", NoConfig, fault, r, headers)
    /\ UNCHANGED <<plugins, routes, nextId, task, headers, runs, walk>>

PluginApplyCall ==
    /\ task.kind = "plugin"
    /\ \E config \in Configs, fault \in Faults :
        \E r \in {PluginApply(task.name, config, task.service, task.route, task.consumer,
                               plugins, routes, fault, FreshIds[nextId])} :
           /\ r.posted => nextId <= MaxCreates
           /\ plugins' = r.pls
           /\ nextId' = IF r.posted THEN nextId + 1 ELSE nextId
           /\ last' = Call("plugin_apply", config, fault, r, headers)
    /\ UNCHANGED <<routes, task, headers, runs, walk>>

PluginDeleteCall ==
    /\ task.kind = "plugin"
    /\ \E fault \in Faults :
        \E r \in {PluginDelete(task.name, task.service, task.route, task.consumer,
                                plugins, routes, fault)} :
           /\ plugins' = r.pls
           /\ last' = Call("plugin_delete", NoConfig, fault, r, headers)
    /\ UNCHANGED <<routes, nextId, task, headers, runs, walk>>

RouteQueryCall ==
    /\ task.kind = "route"
    /\ \E fault \in ReadFaults :
        \E r \in {RouteQuery(task.service, OrEmpty(task.hosts), OrEmpty(task.paths),
                              OrEmpty(task.methods), OrEmpty(task.protocols), routes, fault)} :
           last' = Call("route_query", NoConfig, fault, r, headers)
    /\ UNCHANGED <<plugins, routes, nextId, task, headers, runs, walk>>

\* _post and _patch merge the extra headers into the client's header map
RouteApplyCall ==
    /\ task.kind = "route"
    /\ \E fault \in Faults \ {"list"} :
        \E r \in {RouteApply(task.service, task.name, task.hosts, task.paths, task.methods,
                              task.protocols, FALSE, FALSE, task.route_id, routes, fault,
                              FreshIds[nextId])} :
           LET wrote == Writes(r.reqs) # <<>> IN
           /\ r.posted => nextId <= MaxCreates
           /\ routes' = r.pls
           /\ nextId' = IF r.posted THEN nextId + 1 ELSE nextId
           /\ headers' = IF wrote THEN headers \cup {"content-type"} ELSE headers
           /\ last' = Call("route_apply", NoConfig, fault, r, headers')
    /\ UNCHANGED <<plugins, task, runs, walk>>

RouteDeleteCall ==
    /\ task.kind = "route"
    /\ \E fault \in {"none", "resolver", "write"} :
        \E r \in {RouteDelete(task.route_id, routes, fault)} :
           /\ routes' = r.pls
           /\ last' = Call("route_delete", NoConfig, fault, r, headers)
    /\ UNCHANGED <<plugins, nextId, task, headers, runs, walk>>

Next ==
    \/ PluginQueryCall
    \/ PluginApplyCall
    \/ PluginDeleteCall
    \/ RouteQueryCall
    \/ RouteApplyCall
    \/ RouteDeleteCall

Spec == Init /\ [][Next]_vars

---------------------------------------------------------------------------
(* Overlapping reconciler runs.  plugin_apply holds no lock on the gateway *)
(* between its reads and its write: a run's query and its write are two    *)
(* steps, and steps of another run may come between them.                  *)

\* plugin_apply of run i up to and including p = self.plugin_query(...)
RunQuery(i) ==
    /\ task.kind = "plugin"
    /\ runs[i].pc = "start"
    /\ runs' = [runs EXCEPT ![i] =
            [pc |-> "queried",
             st |-> ApplyBindings(task.name, NoConfig, task.service, task.route,
                                  task.consumer, routes, "none"),
             q |-> PluginQuery(task.name, task.service, task.route, task.consumer,
                               plugins, routes, "none")]]
    /\ UNCHANGED <<plugins, routes, nextId, task, headers, last, walk>>

\* the rest of plugin_apply of run i: the decision on p and the write
RunAct(i) ==
    /\ runs[i].pc = "queried"
    /\ \E r \in {ApplyAct(runs[i].st, runs[i].q, plugins, "none", FreshIds[nextId])} :
           /\ r.posted => nextId <= MaxCreates
           /\ plugins' = r.pls
           /\ nextId' = IF r.posted THEN nextId + 1 ELSE nextId
           /\ last' = Call("plugin_apply", NoConfig, "none", r, headers)
    /\ runs' = [runs EXCEPT ![i].pc = "done"]
    /\ UNCHANGED <<routes, task, headers, walk>>

AllDone == \A i \in Runs : runs[i].pc = "done"

\* two overlapping runs, then calls that run one after another
RaceNext ==
    \/ \E i \in Runs : RunQuery(i)
    \/ \E i \in Runs : RunAct(i)
    \/ AllDone /\ PluginApplyCall
    \/ AllDone /\ PluginDeleteCall

RaceSpec == Init /\ [][RaceNext]_vars

TypeOK ==
    /\ nextId \in 1..(MaxCreates + 1)
    /\ last.op \in {"none", "plugin_query", "plugin_apply", "plugin_delete",
                    "route_query", "route_apply", "route_delete"}

---------------------------------------------------------------------------
(* What the task's arguments stand for on the gateway *)

\* the id a supplied name stands for; None when not supplied or not there
TaskId(kind, ident) == IF ident = None THEN None ELSE EntityId(kind, ident, routes)

TaskBindings ==
    {<<"services", task.service>>, <<"routes", task.route>>, <<"consumers", task.consumer>>}

\* a Plugin task whose name is given and whose supplied names all resolve to
\* well-formed ids
PluginTaskResolves ==
    /\ task.kind = "plugin"
    /\ task.name # None
    /\ \A b \in TaskBindings : b[2] # None => UUIDOk(TaskId(b[1], b[2]))

\* the Plugins of a collection with the task's type name and binding tuple
TaskPlugins(pls) ==
    SelectSeq(pls, LAMBDA p :
        /\ p.name = task.name
        /\ p.service = TaskId("services", task.service)
        /\ p.route = TaskId("routes", task.route)
        /\ p.consumer = TaskId("consumers", task.consumer))

Ambiguous == Err("ValueError", "ambiguous")

PluginOps == {"plugin_query", "plugin_apply", "plugin_delete"}

---------------------------------------------------------------------------
(* The cursor walk of plugin_query, one GET per step, against a gateway    *)
(* whose list responses are not constrained: any 'data', any 'next'.       *)

WalkCursors == {NoCursor, <<"/", "plugins", "?offset", "1">>, <<"/", "plugins", "?offset", "2">>}

\* the list responses the gateway may give to a GET during the walk
WalkResponses(sofar) ==
    {[data |-> d, next |-> n] :
        d \in {<<>>} \cup (IF Len(sofar) < MaxWalkData THEN {<<UniquePlugins[1]>>} ELSE {}),
        n \in WalkCursors}

\* plugins = res = self._get(uri)
WalkStart ==
    /\ walk.pc = "idle"
    /\ \E res \in WalkResponses(<<>>) :
        walk' = [pc |-> "loop", next |-> res.next, data |-> res.data]
    /\ UNCHANGED <<plugins, routes, nextId, task, headers, last, runs>>

\* one evaluation of 'while res['next']:' and, when it is truthy, of the body
WalkStep ==
    /\ walk.pc = "loop"
    /\ IF walk.next = NoCursor
       THEN walk' = [walk EXCEPT !.pc = "done"]
       ELSE \E res \in WalkResponses(walk.data) :
            walk' = [pc |-> "loop", next |-> res.next, data |-> walk.data \o res.data]
    /\ UNCHANGED <<plugins, routes, nextId, task, headers, last, runs>>

WalkNext == WalkStart \/ WalkStep

\* the client is single-threaded and synchronous: it keeps executing its loop
WalkSpec == Init /\ [][WalkNext]_vars /\ WF_vars(WalkStep)

---------------------------------------------------------------------------
(* The Transport Adapter by itself: each verb applied to each status the   *)
(* gateway may answer with.                                                *)

Verbs == {"_get", "_post", "_patch", "_put", "_delete"}
Statuses == {200, 201, 202, 204, 400, 404, 409, 500}

\* r.json(): a 204 response has no body to parse
Json(status) ==
    IF status = 204 THEN [err |-> Err("ValueError", "no_json"), ret |-> None]
    ELSE [err |-> NoErr, ret |-> "body"]

Failed(err) == [err |-> err, ret |-> None]

\* the outcome of one call of a verb whose response has the given status
Transport(verb, status) ==
    CASE verb = "_get" ->
            IF GetRaises(status) THEN Failed(Err("HTTPError", "status")) ELSE Json(status)
      [] verb = "_post" ->
            IF PostOk(status) THEN Json(status)
            ELSE Failed(Err("Exception", "unexpected_status"))
      [] verb = "_patch" ->
            IF PatchOk(status) THEN Json(status)
            ELSE Failed(Err("Exception", "unexpected_status"))
      [] verb = "_put" ->
            IF status = 201 THEN [err |-> NoErr, ret |-> "True"]
            ELSE IF GetRaises(status) THEN Failed(Err("HTTPError", "status"))
            ELSE Json(status)
      [] OTHER ->
            IF DeleteOk(status) THEN [err |-> NoErr, ret |-> "True"]
            ELSE Failed(Err("Exception", "unexpected_status"))

TransportCall ==
    /\ \E verb \in Verbs, status \in Statuses :
        \E t \in {Transport(verb, status)} :
            last' = [NoCall EXCEPT !.op = verb, !.err = t.err, !.ret = t.ret,
                                   !.reqs = <<Req(verb, <<"plugins">>, status)>>,
                                   !.sent = headers]
    /\ UNCHANGED <<plugins, routes, nextId, task, headers, runs, walk>>

TransportSpec == Init /\ [][TransportCall]_vars

---------------------------------------------------------------------------
(* C1: plugin_apply called twice in succession with identical arguments:   *)
(* the second call writes nothing (reports a no-op) and leaves the         *)
(* gateway's Plugins as the first call left them.                          *)
C1_SecondApplyIsNoOp ==
    [][(/\ last.op = "plugin_apply" /\ last.err = NoErr
        /\ last'.op = "plugin_apply" /\ last'.config = last.config
        /\ last'.fault = "none")
       => (Writes(last'.reqs) = <<>> /\ plugins' = plugins)]_vars

---------------------------------------------------------------------------
(* C2 as stated: with two or more Plugins of the task's type name and      *)
(* binding tuple on the gateway, each of plugin_query, plugin_apply and    *)
(* plugin_delete ends in the ambiguity error and writes nothing.           *)
C2_EveryOperationFailsOnDuplicates ==
    [][(/\ PluginTaskResolves /\ Len(TaskPlugins(plugins)) >= 2
        /\ last'.op \in PluginOps /\ last'.fault = "none" /\ last'.config # NotADict)
       => (last'.err = Ambiguous /\ Writes(last'.reqs) = <<>>)]_vars

(* C2 amended: with two or more such Plugins on the gateway and the reads  *)
(* of the call succeeding, plugin_apply and plugin_delete end in the       *)
(* ambiguity error, write nothing and leave the gateway as it was;         *)
(* plugin_query raises nothing and returns every one of the duplicates.    *)
C2_ApplyAndDeleteFailOnDuplicates ==
    [][(/\ PluginTaskResolves /\ Len(TaskPlugins(plugins)) >= 2
        /\ last'.op \in PluginOps /\ last'.fault \in {"none", "write"}
        /\ last'.config # NotADict)
       => /\ last'.op \in {"plugin_apply", "plugin_delete"}
                => /\ last'.err = Ambiguous
                   /\ Writes(last'.reqs) = <<>>
                   /\ plugins' = plugins
          /\ last'.op = "plugin_query"
                => /\ last'.err = NoErr
                   /\ last'.matches = TaskPlugins(plugins)]_vars

C2_Witness ==
    /\ last.op = "plugin_delete" /\ last.err = Ambiguous
    /\ PluginTaskResolves /\ Len(TaskPlugins(plugins)) >= 2

---------------------------------------------------------------------------
(* C3: every Plugin plugin_query returns has, for each of consumer,        *)
(* service and route, no binding when the query names none, and the        *)
(* binding of the named resource's id when the query names one.            *)
BindingAgrees(bound, kind, ident) ==
    IF ident = None THEN bound = None
    ELSE bound # None /\ bound = EntityId(kind, ident, routes)

C3_BindingPresenceSymmetry ==
    (last.op = "plugin_query" /\ last.err = NoErr)
    => \A i \in 1..Len(last.matches) :
        /\ BindingAgrees(last.matches[i].consumer, "consumers", task.consumer)
        /\ BindingAgrees(last.matches[i].service, "services", task.service)
        /\ BindingAgrees(last.matches[i].route, "routes", task.route)

\* a query for a Service and a Route returned a Plugin and left out one that
\* has the Route but no Service
C3_Witness ==
    /\ last.op = "plugin_query" /\ last.err = NoErr /\ last.matches # <<>>
    /\ task.service # None /\ task.route # None
    /\ \E i \in 1..Len(plugins) :
        /\ plugins[i].name = task.name
        /\ plugins[i].route = TaskId("routes", task.route)
        /\ plugins[i].service = None

---------------------------------------------------------------------------
(* C4: plugin_apply whose names resolve and whose reads succeed issues,    *)
(* for zero Plugins of the tuple on the gateway, one POST to plugins and   *)
(* no PATCH; for exactly one, one PATCH to that Plugin's id and no POST;   *)
(* for more than one, the ambiguity error and no write.  No apply issues   *)
(* more than one write.                                                    *)
C4_ApplyDecisionRule ==
    [][last'.op = "plugin_apply"
       => LET m == TaskPlugins(plugins)
              w == Writes(last'.reqs)
          IN /\ Len(w) <= 1
             /\ (/\ PluginTaskResolves /\ last'.fault \in {"none", "write"}
                 /\ last'.config # NotADict)
                => /\ Len(m) = 0 => /\ Len(w) = 1 /\ w[1].verb = "POST"
                                    /\ w[1].uri = <<"plugins">>
                   /\ Len(m) = 1 => /\ Len(w) = 1 /\ w[1].verb = "PATCH"
                                    /\ w[1].uri = <<"plugins", m[1].id>>
                   /\ Len(m) > 1 => /\ w = <<>> /\ last'.err = Ambiguous]_vars

C4_Witness ==
    /\ last.op = "plugin_apply" /\ last.err = NoErr
    /\ Len(last.matches) = 1
    /\ Len(TaskPlugins(plugins)) = 1
    /\ Writes(last.reqs) = <<Req("PATCH", <<"plugins", last.matches[1].id>>, 200)>>

---------------------------------------------------------------------------
(* C5: plugin_delete whose names resolve and whose reads succeed returns   *)
(* False and issues no DELETE when the gateway holds no Plugin of the      *)
(* tuple, and issues exactly one DELETE, to that Plugin's id, when it      *)
(* holds exactly one.                                                      *)
C5_DeleteOnAbsent ==
    [][(/\ last'.op = "plugin_delete" /\ PluginTaskResolves
        /\ last'.fault \in {"none", "write"})
       => LET m == TaskPlugins(plugins)
              w == Writes(last'.reqs)
          IN /\ Len(m) = 0 => /\ w = <<>> /\ last'.ret = "False" /\ last'.err = NoErr
             /\ Len(m) = 1 => /\ Len(w) = 1 /\ w[1].verb = "DELETE"
                              /\ w[1].uri = <<"plugins", m[1].id>>]_vars

\* a delete that queried the gateway, found no Plugin of the tuple and wrote nothing
C5_Witness ==
    /\ last.op = "plugin_delete" /\ last.err = NoErr /\ last.ret = "False"
    /\ PluginTaskResolves /\ TaskPlugins(plugins) = <<>>
    /\ last.reqs # <<>> /\ Writes(last.reqs) = <<>>

---------------------------------------------------------------------------
(* C6: route_query takes a Route the Service's listing shows for a match   *)
(* if and only if its hosts, its paths, its methods and its protocols each *)
(* equal the desired value as a set, an absent field read as the empty     *)
(* set.                                                                    *)
Elems(l) == {OrEmpty(l)[i] : i \in 1..Len(OrEmpty(l))}

SetEqual(r, t) ==
    /\ Elems(r.hosts) = Elems(t.hosts)
    /\ Elems(r.paths) = Elems(t.paths)
    /\ Elems(r.methods) = Elems(t.methods)
    /\ Elems(r.protocols) = Elems(t.protocols)

Returned(r) == \E j \in 1..Len(last.matches) : last.matches[j] = r

C6_RouteMatchIsSetEquality ==
    (/\ last.op = "route_query"
     /\ last.err \in {NoErr, Err("ValueError", "duplicate_routes")})
    => \A i \in 1..Len(RouteList(task.service, routes)) :
        Returned(RouteList(task.service, routes)[i])
            <=> SetEqual(RouteList(task.service, routes)[i], task)

---------------------------------------------------------------------------
(* C7: the payload plugin_apply sends on create or update has exactly the  *)
(* keys 'name', 'config.<k>' for every key k of the config mapping, and    *)
(* '<relation>.id' for every supplied binding; 'name' holds the plugin     *)
(* type, 'config.<k>' the unchanged value of k, '<relation>.id' the        *)
(* resolved id.                                                            *)
BindingKeys ==
    {<<"service.id", "services", task.service>>,
     <<"route.id", "routes", task.route>>,
     <<"consumer.id", "consumers", task.consumer>>}

C7_PayloadConstruction ==
    (last.op = "plugin_apply" /\ Writes(last.reqs) # <<>>)
    => /\ DOMAIN last.data =
            {"name"} \cup {"config." \o k : k \in DOMAIN last.config.d}
                     \cup {b[1] : b \in {x \in BindingKeys : x[3] # None}}
       /\ last.data["name"] = task.name
       /\ \A k \in DOMAIN last.config.d : last.data["config." \o k] = last.config.d[k]
       /\ \A b \in BindingKeys :
            b[3] # None => last.data[b[1]] = EntityId(b[2], b[3], routes)

\* a create with a config mapping, a Service binding and no Consumer binding
C7_Witness ==
    /\ last.op = "plugin_apply" /\ last.err = NoErr
    /\ last.config.kind = "dict" /\ DOMAIN last.config.d # {}
    /\ task.service # None /\ task.consumer = None
    /\ \E i \in 1..Len(last.reqs) : last.reqs[i].verb = "POST"

---------------------------------------------------------------------------
(* C8: a Plugin operation in which a resolver get for a supplied Service,  *)
(* Route or Consumer name returned None ends in the ValueError 'not found',*)
(* uses no list result and issues no write.                                *)
ResolverReturnedNone(req) ==
    /\ req.verb = "GET" /\ Len(req.uri) = 2
    /\ req.uri[1] \in {"services", "routes", "consumers"}
    /\ \/ req.status = 404
       \/ req.uri[1] = "routes" /\ GetRaises(req.status)

C8_UnresolvedNameIsValueError ==
    (/\ last.op \in PluginOps
     /\ \E i \in 1..Len(last.reqs) : ResolverReturnedNone(last.reqs[i]))
    => /\ last.err = Err("ValueError", "not_found")
       /\ last.matches = <<>>
       /\ Writes(last.reqs) = <<>>

---------------------------------------------------------------------------
(* C9: every resource id in the payload of a POST or PATCH issued by       *)
(* plugin_apply (service.id, route.id, consumer.id) or by route_apply (the *)
(* nested service id) is a well-formed UUID.                               *)
C9_IdsValidatedBeforeWrite ==
    /\ (last.op = "plugin_apply" /\ Writes(last.reqs) # <<>>)
        => \A k \in DOMAIN last.data \cap {"service.id", "route.id", "consumer.id"} :
            UUIDOk(last.data[k])
    /\ (last.op = "route_apply" /\ Writes(last.reqs) # <<>>)
        => UUIDOk(last.data.service.id)

---------------------------------------------------------------------------
(* C10: a plugin_apply, plugin_delete or route_apply that fails before it  *)
(* acts (arguments, resolving, querying, deciding) has issued no POST,     *)
(* PATCH or DELETE and leaves the gateway's Plugins and Routes as they     *)
(* were before the call.                                                   *)
FailedInAct == Err("Exception", "unexpected_status")

C10_NoSideEffectOnEarlyFailure ==
    [][(/\ last'.op \in {"plugin_apply", "plugin_delete", "route_apply"}
        /\ last'.err \notin {NoErr, FailedInAct})
       => /\ Writes(last'.reqs) = <<>>
          /\ plugins' = plugins
          /\ routes' = routes]_vars

\* a delete that found two Plugins of the tuple and left both on the gateway
C10_Witness ==
    /\ last.op = "plugin_delete" /\ last.err = Ambiguous
    /\ Len(last.matches) >= 2 /\ Writes(last.reqs) = <<>>
    /\ \A j \in 1..Len(last.matches) :
        \E i \in 1..Len(plugins) : plugins[i] = last.matches[j]

---------------------------------------------------------------------------
(* C11: a plugin_apply run whose query saw no Plugin of the key posts one, *)
(* whatever other runs have written since its query, so two overlapping    *)
(* runs leave two Plugins of the key; and with two or more Plugins of the  *)
(* key on the gateway, a plugin_apply or plugin_delete that runs after     *)
(* them ends in the ambiguity error and writes nothing.                    *)
SawNone(r) == r.st.err = NoErr /\ r.q.err = NoErr /\ r.q.result = <<>>

C11_CheckThenActRace ==
    [][/\ \A i \in Runs :
            (runs[i].pc = "queried" /\ runs'[i].pc = "done" /\ SawNone(runs[i]))
            => /\ Writes(last'.reqs) = <<Req("POST", <<"plugins">>, 201)>>
               /\ Len(TaskPlugins(plugins')) = Len(TaskPlugins(plugins)) + 1
       /\ (/\ runs' = runs /\ AllDone
           /\ PluginTaskResolves /\ Len(TaskPlugins(plugins)) >= 2
           /\ last'.op \in {"plugin_apply", "plugin_delete"}
           /\ last'.fault \in {"none", "write"} /\ last'.config # NotADict)
          => /\ last'.err = Ambiguous
             /\ Writes(last'.reqs) = <<>>
             /\ plugins' = plugins]_vars

\* both runs saw no Plugin of the key, both posted, and the delete that
\* followed them failed on the two Plugins
C11_Witness ==
    /\ AllDone
    /\ \A i \in Runs : SawNone(runs[i])
    /\ Len(TaskPlugins(plugins)) = 2
    /\ last.op = "plugin_delete" /\ last.err = Ambiguous

---------------------------------------------------------------------------
(* C12: the cursor walk of plugin_query, once begun, comes to its end for  *)
(* every sequence of list responses: the loop is left and the matching     *)
(* step runs.                                                              *)
C12_WalkTerminates == (walk.pc = "loop") ~> (walk.pc = "done")

---------------------------------------------------------------------------
(* C13: the list GETs of a plugin_query are the chain of pages: the first  *)
(* is the scope's first page, each next one is the stripped 'next' of the  *)
(* page before it, the last page has a falsy 'next', no page is fetched    *)
(* twice; and the Plugins the query returns are the filter of the          *)
(* concatenation of the pages' 'data' in that order, which is the whole    *)
(* scoped collection.                                                      *)
IsListReq(r) == r.verb = "GET" /\ Len(ScopeOf(r.uri)) \in {1, 3}

ListReqs == SelectSeq(last.reqs, IsListReq)

PageAt(i) == GwPluginList(ListReqs[i].uri, plugins, routes)

RECURSIVE PagesData(_)
PagesData(n) == IF n = 0 THEN <<>> ELSE PagesData(n - 1) \o PageAt(n).data

TaskIds ==
    [services |-> TaskId("services", task.service),
     routes |-> TaskId("routes", task.route),
     consumers |-> TaskId("consumers", task.consumer)]

C13_PaginationComplete ==
    (last.op = "plugin_query" /\ last.err = NoErr)
    => /\ ListReqs # <<>>
       /\ ~HasOffset(ListReqs[1].uri)
       /\ \A i \in 1..(Len(ListReqs) - 1) :
            /\ PageAt(i).next # NoCursor
            /\ ListReqs[i + 1].uri = Strip(PageAt(i).next)
       /\ PageAt(Len(ListReqs)).next = NoCursor
       /\ \A i, j \in 1..Len(ListReqs) : i # j => ListReqs[i].uri # ListReqs[j].uri
       /\ PagesData(Len(ListReqs)) = ScopedPlugins(ListReqs[1].uri, plugins, routes)
       /\ last.matches = SelectSeq(PagesData(Len(ListReqs)),
                                   LAMBDA p : Matches(p, task.name, TaskIds))

\* a query over three pages or more that returned a Plugin of a page after the first
C13_Witness ==
    /\ last.op = "plugin_query" /\ last.err = NoErr
    /\ Len(ListReqs) >= 3
    /\ \E j \in 1..Len(last.matches) :
        \A k \in 1..Len(PageAt(1).data) : PageAt(1).data[k] # last.matches[j]

---------------------------------------------------------------------------
(* C14: route_query decides over every Route of the Service the gateway    *)
(* holds, whatever page of the Service's routes collection shows it: no    *)
(* match among them gives None, exactly one gives that Route, more than    *)
(* one gives the duplicate-routes error.                                   *)
TaskRouteMatches(rts) ==
    SelectSeq(ServiceRoutes(task.service, rts),
              LAMBDA r : RouteMatches(r, OrEmpty(task.hosts), OrEmpty(task.paths),
                                      OrEmpty(task.methods), OrEmpty(task.protocols)))

DuplicateRoutesErr == Err("ValueError", "duplicate_routes")

C14_RouteQueryCoversAllPages ==
    (/\ last.op = "route_query" /\ last.fault = "none"
     /\ EntityId("services", task.service, routes) # None)
    => /\ Len(TaskRouteMatches(routes)) = 0 => (last.err = NoErr /\ last.ret = None)
       /\ Len(TaskRouteMatches(routes)) = 1
            => (last.err = NoErr /\ last.ret = TaskRouteMatches(routes)[1].id)
       /\ Len(TaskRouteMatches(routes)) > 1 => last.err = DuplicateRoutesErr

---------------------------------------------------------------------------
(* C15: when a successful route_apply is followed by a second successful   *)
(* route_apply with the same arguments, the gateway does not come to hold  *)
(* more than one Route of the Service with the task's hosts, paths,        *)
(* methods and protocols.  (Stated for tasks that name a host.)            *)
C15_RepeatedRouteApplyKeepsOne ==
    [][(/\ task.kind = "route" /\ OrEmpty(task.hosts) # <<>>
        /\ last.op = "route_apply" /\ last.err = NoErr
        /\ Len(TaskRouteMatches(routes)) <= 1
        /\ last'.op = "route_apply" /\ last'.err = NoErr)
       => Len(TaskRouteMatches(routes')) <= 1]_vars

---------------------------------------------------------------------------
(* C16: the headers sent with the requests of a call are the headers set   *)
(* at construction plus the extra headers passed by that same call (the    *)
(* JSON content-type for the write of route_apply, none for any other      *)
(* call).                                                                  *)
ExtraHeaders(op) == IF op = "route_apply" THEN {"content-type"} ELSE {}

C16_HeadersFixedAtConstruction ==
    last.op # "none"
    => last.sent \subseteq (KongInit("kong_admin", "kong123") \cup ExtraHeaders(last.op))

---------------------------------------------------------------------------
(* C17: a call whose GET routes/<name or id> was answered with a server    *)
(* error (5xx) ends in that HTTP error: route_get does not return None for *)
(* it, so plugin_query, plugin_apply, plugin_delete and route_delete do    *)
(* not go on as if the Route did not exist.                                *)
RouteGetServerError(req) ==
    /\ req.verb = "GET" /\ Len(req.uri) = 2 /\ req.uri[1] = "routes"
    /\ req.status >= 500

C17_RouteGetPropagatesFailure ==
    (/\ last.op \in {"plugin_query", "plugin_apply", "plugin_delete", "route_delete"}
     /\ \E i \in 1..Len(last.reqs) : RouteGetServerError(last.reqs[i]))
    => last.err = Err("HTTPError", "status")

---------------------------------------------------------------------------
(* C18: route_apply with protocols, hosts, paths and methods all absent    *)
(* ends in the validation error without having issued any request; with    *)
(* one of them given and a Service that resolves it issues exactly one     *)
(* write: PATCH routes/<route_id> when route_id is given, POST routes      *)
(* otherwise.                                                              *)
NoFields ==
    /\ task.protocols = NoList /\ task.hosts = NoList
    /\ task.paths = NoList /\ task.methods = NoList

---------------------------------------------------------------------------
(* C19: _get returns the parsed body on status 200 and on no other status, *)
(* _post on 201 only, _patch on 200 only; _delete returns True on 204      *)
(* only; _put returns True on 201 only and otherwise the parsed body or an *)
(* error; every other status of a GET, POST, PATCH or DELETE ends in an    *)
(* error.                                                                  *)
Expected(verb) ==
    CASE verb \in {"_get", "_patch"} -> 200
      [] verb \in {"_post", "_put"} -> 201
      [] OTHER -> 204

C19_ExpectedStatusPerVerb ==
    last.op \in Verbs
    => /\ last.op \in {"_get", "_post", "_patch"}
            => /\ last.ret = "body" => last.reqs[1].status = Expected(last.op)
               /\ last.reqs[1].status = Expected(last.op) => last.ret = "body"
       /\ last.op = "_delete" => (last.ret = "True" <=> last.reqs[1].status = 204)
       /\ last.op = "_put"
            => /\ last.ret = "True" <=> last.reqs[1].status = 201
               /\ last.reqs[1].status # 201 => (last.ret = "body" \/ last.err # NoErr)
       /\ (last.op # "_put" /\ last.reqs[1].status # Expected(last.op))
            => (last.err # NoErr /\ last.ret = None)

---------------------------------------------------------------------------
(* C20: a plugin_apply or plugin_delete that starts on a gateway with at   *)
(* most one Plugin per (plugin type, service, route, consumer) tuple       *)
(* leaves a gateway with at most one Plugin per tuple; so any sequence of  *)
(* such calls, one after another, keeps it.                                *)
SameTuple(p, q) ==
    /\ p.name = q.name /\ p.service = q.service
    /\ p.route = q.route /\ p.consumer = q.consumer

AtMostOnePerTuple(pls) ==
    \A i, j \in 1..Len(pls) : SameTuple(pls[i], pls[j]) => i = j

C20_SequentialAtMostOne ==
    [][AtMostOnePerTuple(plugins) => AtMostOnePerTuple(plugins')]_vars

\* a Plugin was created, deleted and created again, and is the only one of its tuple
C20_Witness ==
    /\ last.op = "plugin_apply" /\ last.err = NoErr
    /\ nextId = 3
    /\ Len(TaskPlugins(plugins)) = 1
    /\ AtMostOnePerTuple(plugins)

---------------------------------------------------------------------------
(* C21: every PATCH of a plugin_apply and every DELETE of a plugin_delete  *)
(* is addressed to the id of a Plugin the gateway held before the call     *)
(* with the task's type name and its (service, route, consumer) binding    *)
(* tuple; the Plugins with another type name or another tuple are the same *)
(* after the call as before it.                                            *)
OnKey(p) ==
    /\ p.name = task.name
    /\ p.service = TaskId("services", task.service)
    /\ p.route = TaskId("routes", task.route)
    /\ p.consumer = TaskId("consumers", task.consumer)

OffKeyPlugins(pls) == SelectSeq(pls, LAMBDA p : ~OnKey(p))

AddressedOnKey(req, pls) ==
    \E i \in 1..Len(pls) : OnKey(pls[i]) /\ req.uri = <<"plugins", pls[i].id>>

C21_WritesTouchOnlyTheKey ==
    [][last'.op \in {"plugin_apply", "plugin_delete"}
       => /\ \A k \in 1..Len(last'.reqs) :
                last'.reqs[k].verb \in {"PATCH", "DELETE"}
                => AddressedOnKey(last'.reqs[k], plugins)
          /\ OffKeyPlugins(plugins') = OffKeyPlugins(plugins)]_vars

\* a delete removed the Plugin of the key and left Plugins of the same type
\* name with other bindings on the gateway
C21_Witness ==
    /\ last.op = "plugin_delete" /\ last.err = NoErr /\ last.ret = "True"
    /\ TaskPlugins(plugins) = <<>>
    /\ \E i \in 1..Len(plugins) : plugins[i].name = task.name

---------------------------------------------------------------------------
(* C22: a plugin_delete that follows a plugin_apply which found no Plugin  *)
(* of the key and created one returns True and leaves no Plugin of the     *)
(* key; a plugin_delete that follows a plugin_delete which returned True   *)
(* returns False and issues no DELETE.                                     *)
Created(call) ==
    /\ call.op = "plugin_apply" /\ call.err = NoErr /\ call.matches = <<>>

NoDelete(reqs) == \A k \in 1..Len(reqs) : reqs[k].verb # "DELETE"

C22_ApplyDeleteRoundTrip ==
    [][(last'.op = "plugin_delete" /\ last'.fault = "none")
       => /\ Created(last)
                => /\ last'.err = NoErr /\ last'.ret = "True"
                   /\ TaskPlugins(plugins') = <<>>
          /\ (last.op = "plugin_delete" /\ last.ret = "True")
                => /\ last'.err = NoErr /\ last'.ret = "False"
                   /\ NoDelete(last'.reqs)]_vars

\* the end of the round trip: the Plugin this run created is gone and the
\* last delete found nothing to delete
C22_Witness ==
    /\ last.op = "plugin_delete" /\ last.err = NoErr /\ last.ret = "False"
    /\ NoDelete(last.reqs)
    /\ nextId = 2 /\ PluginTaskResolves
    /\ TaskPlugins(plugins) = <<>>

====
